---- MODULE Spec2Model ----
(***************************************************************************)
(* Model of the battle engine of poke-mcp (src/server.py): the two data    *)
(* fetches of simulate_battle, the speed-based turn order, the battle loop *)
(* with its paralysis-skip and status-infliction rolls, the damage         *)
(* formula, the end-of-turn status damage and the returned result.         *)
(* Spec is one simulate_battle call, TickSpec the same call between        *)
(* Pokemon of large hp, ConcSpec two calls interleaved at their awaits,    *)
(* InfoSpec one get_pokemon_info call, and UnitSpec one direct call of     *)
(* get_type_multiplier, calculate_damage or try_inflict_status.            *)
(*                                                                         *)
(* Conventions.  Python's None is the empty sequence <<>> and a present    *)
(* optional value x is <<x>>.  Strings that the code transforms or        *)
(* searches (Pokemon names, effect texts) are sequences of one-character   *)
(* strings; move names and type names are only copied and compared and are *)
(* plain strings.  A float type multiplier m is kept as the exact rational *)
(* num / den; every table entry is a multiple of 0.5, so products of       *)
(* entries are exact in binary floating point as well.  An f-string is the *)
(* tuple of its tag and of the values interpolated into it.                *)
(***************************************************************************)
EXTENDS Integers, Sequences, FiniteSets, TLC

\* ---------------------------------------------------------------------
\* Bounds of the model (not program constants)
\* ---------------------------------------------------------------------

\* The turn counter is an unbounded Python int; the model counts up to here
\* and then holds the value.
MaxTurn == 8

\* The log is an unbounded Python list; the model records this many entries
\* and then holds the log.
MaxLog == 20

\* ---------------------------------------------------------------------
\* Constants of the program
\* ---------------------------------------------------------------------

STATUS_PARALYSIS == "paralysis"

STATUS_BURN == "burn"

STATUS_POISON == "poison"

\* Python's None for a status variable.
NoStatus == "none"

STATUS_EFFECTS == <<STATUS_PARALYSIS, STATUS_BURN, STATUS_POISON>>

DefaultAttack == 50

DefaultDefense == 50

DefaultPower == 50

DefaultHp == 100

DefaultSpeed == 50

\* Type effectiveness chart, in halves: 0 is 0.0, 1 is 0.5, 4 is 2.0.
TYPE_EFFECTIVENESS ==
    [
      normal |-> [rock |-> 1, ghost |-> 0, steel |-> 1],
      fire |-> [fire |-> 1, water |-> 1, grass |-> 4, ice |-> 4, bug |-> 4, rock |-> 1, dragon |-> 1, steel |-> 4],
      water |-> [fire |-> 4, water |-> 1, grass |-> 1, ground |-> 4, rock |-> 4, dragon |-> 1],
      electric |-> [water |-> 4, electric |-> 1, grass |-> 1, ground |-> 0, flying |-> 4, dragon |-> 1],
      grass |-> [fire |-> 1, water |-> 4, grass |-> 1, poison |-> 1, ground |-> 4, flying |-> 1, bug |-> 1, rock |-> 4, dragon |-> 1, steel |-> 1],
      ice |-> [fire |-> 1, water |-> 1, grass |-> 4, ice |-> 1, ground |-> 4, flying |-> 4, dragon |-> 4, steel |-> 1],
      fighting |-> [normal |-> 4, ice |-> 4, rock |-> 4, dark |-> 4, steel |-> 4, poison |-> 1, flying |-> 1, psychic |-> 1, bug |-> 1, ghost |-> 0, fairy |-> 1],
      poison |-> [grass |-> 4, poison |-> 1, ground |-> 1, rock |-> 1, ghost |-> 1, steel |-> 0, fairy |-> 4],
      ground |-> [fire |-> 4, electric |-> 4, grass |-> 1, poison |-> 4, flying |-> 0, bug |-> 1, rock |-> 4, steel |-> 4],
      flying |-> [electric |-> 1, grass |-> 4, fighting |-> 4, bug |-> 4, rock |-> 1, steel |-> 1],
      psychic |-> [fighting |-> 4, poison |-> 4, psychic |-> 1, dark |-> 0, steel |-> 1],
      bug |-> [fire |-> 1, grass |-> 4, fighting |-> 1, poison |-> 1, flying |-> 1, psychic |-> 4, ghost |-> 1, dark |-> 4, steel |-> 1, fairy |-> 1],
      rock |-> [fire |-> 4, ice |-> 4, fighting |-> 1, ground |-> 1, flying |-> 4, bug |-> 4, steel |-> 1],
      ghost |-> [normal |-> 0, psychic |-> 4, ghost |-> 4, dark |-> 1],
      dragon |-> [dragon |-> 4, steel |-> 1, fairy |-> 0],
      dark |-> [fighting |-> 1, psychic |-> 4, ghost |-> 4, dark |-> 1, fairy |-> 1],
      steel |-> [fire |-> 1, water |-> 1, electric |-> 1, ice |-> 4, rock |-> 4, fairy |-> 4, steel |-> 1],
      fairy |-> [fire |-> 1, fighting |-> 4, poison |-> 1, dragon |-> 4, dark |-> 4, steel |-> 1]
    ]


\* The neutral multiplier 1.0, in halves.
Neutral == 2

\* ---------------------------------------------------------------------
\* Generic helpers: optional values, dict.get, str.lower, substring
\* ---------------------------------------------------------------------

None == <<>>

Some(x) == <<x>>

\* d.get(key, default) for a dict modelled as a record.
Get(d, key, default) == IF key \in DOMAIN d THEN d[key] ELSE default

Max(a, b) == IF a >= b THEN a ELSE b

Chars ==
    { "A", "B", "C", "D", "E", "F", "G", "H", "I", "J", "K", "L", "M",
      "N", "O", "P", "Q", "R", "S", "T", "U", "V", "W", "X", "Y", "Z",
      "a", "b", "c", "d", "e", "f", "g", "h", "i", "j", "k", "l", "m",
      "n", "o", "p", "q", "r", "s", "t", "u", "v", "w", "x", "y", "z",
      " ", "." }

LowerChar ==
    [c \in Chars |->
       CASE c = "A" -> "a"
         [] c = "B" -> "b"
         [] c = "C" -> "c"
         [] c = "D" -> "d"
         [] c = "E" -> "e"
         [] c = "F" -> "f"
         [] c = "G" -> "g"
         [] c = "H" -> "h"
         [] c = "I" -> "i"
         [] c = "J" -> "j"
         [] c = "K" -> "k"
         [] c = "L" -> "l"
         [] c = "M" -> "m"
         [] c = "N" -> "n"
         [] c = "O" -> "o"
         [] c = "P" -> "p"
         [] c = "Q" -> "q"
         [] c = "R" -> "r"
         [] c = "S" -> "s"
         [] c = "T" -> "t"
         [] c = "U" -> "u"
         [] c = "V" -> "v"
         [] c = "W" -> "w"
         [] c = "X" -> "x"
         [] c = "Y" -> "y"
         [] c = "Z" -> "z"
         [] OTHER -> c]

\* str.lower()
Lower(s) == [i \in 1..Len(s) |-> LowerChar[s[i]]]

\* Python's  kw in text  for strings.
Contains(text, kw) ==
    \E i \in 1..(Len(text) - Len(kw) + 1) :
        SubSeq(text, i, i + Len(kw) - 1) = kw

KwParalyze == <<"p", "a", "r", "a", "l", "y", "z", "e">>

KwBurn == <<"b", "u", "r", "n">>

KwPoison == <<"p", "o", "i", "s", "o", "n">>

\* ---------------------------------------------------------------------
\* Pure functions of the engine
\* ---------------------------------------------------------------------

EmptyDict == [k \in {} |-> Neutral]

\* TYPE_EFFECTIVENESS.get(attack_type, {}).get(d_type, 1.0), in halves.
TypeLookup(attack_type, d_type) ==
    Get(Get(TYPE_EFFECTIVENESS, attack_type, EmptyDict), d_type, Neutral)

\* The running product after the first n defending types, as num / den.
RECURSIVE TypeProduct(_, _, _)
TypeProduct(attack_type, defender_types, n) ==
    IF n = 0
    THEN [num |-> 1, den |-> 1]
    ELSE LET r == TypeProduct(attack_type, defender_types, n - 1)
         IN  [num |-> r.num * TypeLookup(attack_type, defender_types[n]),
              den |-> r.den * 2]

\* Only the first defending type counts.
get_type_multiplier_first(attack_type, defender_types) ==
    TypeProduct(attack_type, defender_types,
                IF Len(defender_types) > 1 THEN 1 ELSE Len(defender_types))

get_type_multiplier(attack_type, defender_types) ==
    TypeProduct(attack_type, defender_types, Len(defender_types))

\* move["power"] or 50
PowerOf(move) ==
    IF move.power = None THEN DefaultPower
    ELSE IF move.power[1] = 0 THEN DefaultPower
    ELSE move.power[1]

\* The attack stat without the burn halving.
AttackStat_unhalved(attacker, status) ==
    Get(attacker.base_stats, "attack", DefaultAttack)

\* The attack stat after the burn halving, int(attack_stat / 2).
AttackStat(attacker, status) ==
    LET attack_stat == Get(attacker.base_stats, "attack", DefaultAttack)
    IN  IF status = STATUS_BURN THEN attack_stat \div 2 ELSE attack_stat

DefenseStat(defender) == Get(defender.base_stats, "defense", DefaultDefense)

\* The division by defense_stat raises ZeroDivisionError when it is 0.
calculate_damage_raises(attacker, defender) == DefenseStat(defender) = 0

\* max(1, int((((2*50/5 + 2) * power * attack / defense) / 50 + 2) * mult)),
\* for a non-zero defense:  ((22*p*a/d)/50 + 2) * num/den
\*                        = (22*p*a + 100*d) * num / (50*d*den).
\* The formula without the final  max(1, damage).
calculate_damage_nomax(attacker, defender, status) ==
    LET move == attacker.move
        type_multiplier == get_type_multiplier(move.type, defender.types)
    IN  ((22 * PowerOf(move) * AttackStat(attacker, status)
            + 100 * DefenseStat(defender)) * type_multiplier.num)
        \div (50 * DefenseStat(defender) * type_multiplier.den)

\* The formula with the level term 2*50/5 but without its  + 2.
calculate_damage_level(attacker, defender, status) ==
    LET move == attacker.move
        type_multiplier == get_type_multiplier(move.type, defender.types)
    IN  Max(1, ((20 * PowerOf(move) * AttackStat(attacker, status)
                   + 100 * DefenseStat(defender)) * type_multiplier.num)
               \div (50 * DefenseStat(defender) * type_multiplier.den))

calculate_damage(attacker, defender, status) ==
    LET move == attacker.move
        attack_stat == AttackStat(attacker, status)
        defense_stat == DefenseStat(defender)
        power == PowerOf(move)
        type_multiplier == get_type_multiplier(move.type, defender.types)
        damage == ((22 * power * attack_stat + 100 * defense_stat)
                      * type_multiplier.num)
                  \div (50 * defense_stat * type_multiplier.den)
    IN  Max(1, damage)

\* The effect without the  max(1, ...)  floor of one point.
apply_status_effects_nomax(status, hp) ==
    IF status = STATUS_BURN
    THEN LET burn_damage == hp \div 16
         IN  [hp |-> hp - burn_damage, log |-> Some(<<"Burn deals", burn_damage>>)]
    ELSE IF status = STATUS_POISON
    THEN LET poison_damage == hp \div 8
         IN  [hp |-> hp - poison_damage, log |-> Some(<<"Poison deals", poison_damage>>)]
    ELSE [hp |-> hp, log |-> None]

\* Burn deals an eighth and poison a sixteenth.
apply_status_effects_swapped(status, hp) ==
    IF status = STATUS_BURN
    THEN LET burn_damage == Max(1, hp \div 8)
         IN  [hp |-> hp - burn_damage, log |-> Some(<<"Burn deals", burn_damage>>)]
    ELSE IF status = STATUS_POISON
    THEN LET poison_damage == Max(1, hp \div 16)
         IN  [hp |-> hp - poison_damage, log |-> Some(<<"Poison deals", poison_damage>>)]
    ELSE [hp |-> hp, log |-> None]

\* Returns the new hp and the narration: None for the empty string.
apply_status_effects(status, hp) ==
    IF status = STATUS_BURN
    THEN LET burn_damage == Max(1, hp \div 16)
         IN  [hp |-> hp - burn_damage, log |-> Some(<<"Burn deals", burn_damage>>)]
    ELSE IF status = STATUS_POISON
    THEN LET poison_damage == Max(1, hp \div 8)
         IN  [hp |-> hp - poison_damage, log |-> Some(<<"Poison deals", poison_damage>>)]
    ELSE [hp |-> hp, log |-> None]

\* The keywords tested in the order burn, paralyze, poison.
try_inflict_status_burnfirst(move, roll) ==
    LET effect == Lower(IF move.effect = None THEN <<>> ELSE move.effect[1])
    IN  IF Contains(effect, KwBurn)
        THEN (IF roll THEN STATUS_BURN ELSE NoStatus)
        ELSE IF Contains(effect, KwParalyze)
        THEN (IF roll THEN STATUS_PARALYSIS ELSE NoStatus)
        ELSE IF Contains(effect, KwPoison)
        THEN (IF roll THEN STATUS_POISON ELSE NoStatus)
        ELSE NoStatus

\* The number of random.random() calls try_inflict_status makes.
try_inflict_status_rolls(move) ==
    LET effect == Lower(IF move.effect = None THEN <<>> ELSE move.effect[1])
    IN  IF Contains(effect, KwParalyze) THEN 1
        ELSE IF Contains(effect, KwBurn) THEN 1
        ELSE IF Contains(effect, KwPoison) THEN 1
        ELSE 0

\* roll is the outcome of  random.random() < 0.2 ; it is drawn only on the
\* branches that reach it.
try_inflict_status(move, roll) ==
    LET effect == Lower(IF move.effect = None THEN <<>> ELSE move.effect[1])
    IN  IF Contains(effect, KwParalyze)
        THEN (IF roll THEN STATUS_PARALYSIS ELSE NoStatus)
        ELSE IF Contains(effect, KwBurn)
        THEN (IF roll THEN STATUS_BURN ELSE NoStatus)
        ELSE IF Contains(effect, KwPoison)
        THEN (IF roll THEN STATUS_POISON ELSE NoStatus)
        ELSE NoStatus

\* ---------------------------------------------------------------------
\* The upstream data source: what the two HTTP requests of a fetch can give
\* ---------------------------------------------------------------------

\* Names the tools are called with.
RequestNames == { <<"M", "e", "w">>, <<"a", "b", "r", "a">> }

TxtParalyze == <<"M", "a", "y", " ", "P", "A", "R", "A", "L", "Y", "Z", "E", ".">>

TxtBurn == <<"C", "a", "n", " ", "b", "u", "r", "n", ".">>

TxtPoison == <<"B", "a", "d", "l", "y", " ", "p", "o", "i", "s", "o", "n", "s", ".">>

\* The effect entries of a move: the first English one is used.
Entries(text) ==
    << [language |-> "fr", effect |-> TxtBurn],
       [language |-> "en", effect |-> text] >>

\* Move records as the move endpoint returns them; keys may be absent and
\* power may be null.
MoveTackle ==
    [name |-> "tackle", power |-> Some(50), type |-> [name |-> "normal"],
     effect_entries |-> <<>>]

MoveShock ==
    [name |-> "thunder-shock", power |-> None, type |-> [name |-> "electric"],
     effect_entries |-> Entries(TxtParalyze)]

MoveEmber ==
    [name |-> "ember", power |-> Some(40), type |-> [name |-> "fire"],
     effect_entries |-> Entries(TxtBurn)]

MoveSting ==
    [name |-> "sting", power |-> Some(0),
     effect_entries |-> Entries(TxtPoison)]

MoveBare == [effect_entries |-> <<>>]

\* Pokemon records as the pokemon endpoint returns them (name apart).
Pokedex ==
    { [stats |-> [hp |-> 100, attack |-> 100, defense |-> 100, speed |-> 100],
       types |-> <<"normal">>, moves |-> <<MoveTackle, MoveEmber>>],
      [stats |-> [hp |-> 100, attack |-> 100, defense |-> 100, speed |-> 50],
       types |-> <<"normal">>, moves |-> <<MoveTackle>>],
      [stats |-> [hp |-> 20],
       types |-> <<"electric">>, moves |-> <<MoveShock>>],
      [stats |-> [hp |-> 45, attack |-> 25, defense |-> 50, speed |-> 50],
       types |-> <<"fire", "flying">>, moves |-> <<MoveEmber>>],
      [stats |-> [hp |-> 12, attack |-> 0, defense |-> 100, speed |-> 70],
       types |-> <<"ghost">>, moves |-> <<MoveSting>>],
      [stats |-> [hp |-> 10, attack |-> 30, defense |-> 0],
       types |-> <<>>, moves |-> <<MoveBare>>],
      [stats |-> [hp |-> 0, attack |-> 0, defense |-> 0, speed |-> 0],
       types |-> <<"normal">>, moves |-> <<MoveTackle>>],
      [stats |-> [hp |-> 50],
       types |-> <<"normal">>, moves |-> <<>>] }

\* A slow Pokemon of the given hp.
Sturdy(hp) ==
    [stats |-> [hp |-> hp, attack |-> 100, defense |-> 100, speed |-> 0],
     types |-> <<"normal">>, moves |-> <<MoveTackle>>]

\* Pokemon records whose battles bring burn and poison to large hp values.
TickDex ==
    { [stats |-> [hp |-> 20],
       types |-> <<"electric">>, moves |-> <<MoveShock>>],
      [stats |-> [hp |-> 45, attack |-> 25, defense |-> 50, speed |-> 50],
       types |-> <<"fire", "flying">>, moves |-> <<MoveEmber>>],
      [stats |-> [hp |-> 12, attack |-> 0, defense |-> 100, speed |-> 70],
       types |-> <<"ghost">>, moves |-> <<MoveSting>>],
      [stats |-> [hp |-> 0, attack |-> 0, defense |-> 0, speed |-> 0],
       types |-> <<"normal">>, moves |-> <<MoveTackle>>],
      Sturdy(166), Sturdy(167), Sturdy(82) }

\* Outcomes of one HTTP request: a 200 response with well-formed JSON, a
\* 200 response whose JSON lacks a key the code indexes, another status
\* code, or an httpx.RequestError raised by client.get.
HttpOutcomes == { "ok", "malformed", "non200", "transport" }

\* The fetch returns None.
NonePoke == [none |-> TRUE]

IsNone(p) == "none" \in DOMAIN p

\* The first English effect text of a move, or None.
RECURSIVE FirstEnglish(_, _)
FirstEnglish(entries, i) ==
    IF i > Len(entries) THEN None
    ELSE IF entries[i].language = "en" THEN Some(entries[i].effect)
    ELSE FirstEnglish(entries, i + 1)

\* fetch_pokemon_full_data: resp and move_resp are the outcomes of the two
\* requests, data the JSON of the first.  The result is a returned value
\* or a raised exception.
fetch_pokemon_full_data(pokemon_name, resp, data, move_resp) ==
    IF resp = "transport" THEN [raised |-> "RequestError"]
    ELSE IF resp = "non200" THEN [raised |-> "none", value |-> NonePoke]
    ELSE IF resp = "malformed" THEN [raised |-> "KeyError"]
    ELSE IF data.moves = <<>> THEN [raised |-> "none", value |-> NonePoke]
    ELSE IF move_resp = "transport" THEN [raised |-> "RequestError"]
    ELSE IF move_resp = "non200" THEN [raised |-> "none", value |-> NonePoke]
    ELSE IF move_resp = "malformed" THEN [raised |-> "KeyError"]
    ELSE LET move_data == data.moves[1]
             move_power == Get(move_data, "power", Some(DefaultPower))
             move_type == Get(Get(move_data, "type", EmptyDict), "name", "normal")
             move_name == Get(move_data, "name", "tackle")
             move_effect == FirstEnglish(Get(move_data, "effect_entries", <<>>), 1)
         IN  [raised |-> "none",
              value |-> [name |-> Lower(pokemon_name),
                         base_stats |-> data.stats,
                         types |-> data.types,
                         move |-> [name |-> move_name,
                                   power |-> move_power,
                                   type |-> move_type,
                                   effect |-> move_effect]]]

\* ---------------------------------------------------------------------
\* State of one simulate_battle invocation
\* ---------------------------------------------------------------------

VARIABLES
    pc,             \* position in simulate_battle
    pokemon1,       \* first argument
    pokemon2,       \* second argument
    poke1,          \* result of the first fetch
    poke2,          \* result of the second fetch
    hp1,            \* starting health of poke1
    hp2,            \* starting health of poke2
    log,            \* narration entries
    turn,           \* round counter
    first,          \* descriptor of the side that acts first
    second,         \* descriptor of the side that acts second
    first_hp,
    second_hp,
    first_status,
    second_status,
    first_name,
    second_name,
    damage,         \* damage of the last executed attack
    new_status,     \* outcome of the last infliction attempt
    status_log,     \* narration of the last end-of-turn effect
    winner,
    result,         \* the value returned to the caller
    exc             \* the exception that left simulate_battle, or "none"

\* The environment of the invocation.
VARIABLES
    dex,            \* the Pokemon records the upstream can answer with
    parked,         \* the frame of a suspended simulate_battle coroutine
    unit            \* a direct application of one of the pure functions

\* State of one get_pokemon_info invocation.
VARIABLES
    info_pc,        \* position in get_pokemon_info
    info_name,      \* its argument pokemon_name
    info_data,      \* pokemon_data
    info_abilities, \* abilities collected so far
    info_moves,     \* moves collected so far
    info_resp,      \* outcome of its latest HTTP request
    info_result,    \* the value returned to the caller
    info_exc        \* the exception that left get_pokemon_info, or "none"

\* The local variables of simulate_battle: the frame of its coroutine.
frameVars ==
    << pc, pokemon1, pokemon2, poke1, poke2, hp1, hp2, log, turn, first,
       second, first_hp, second_hp, first_status, second_status, first_name,
       second_name, damage, new_status, status_log, winner, result, exc >>

infoVars ==
    << info_pc, info_name, info_data, info_abilities, info_moves,
       info_resp, info_result, info_exc >>

\* What no step of simulate_battle touches.
otherVars == << dex, parked, unit, infoVars >>

vars == << frameVars, otherVars >>

\* Local variables that are not assigned yet.
battleVars ==
    << hp1, hp2, log, turn, first, second, first_hp, second_hp, first_status,
       second_status, first_name, second_name, damage, new_status,
       status_log, winner >>

\* No value has been returned yet.
NoResult == [pending |-> TRUE]

\* The message of the error result.
FetchErrorText == <<"Could not fetch data for one or both Pokemon.">>

\* The entry is put in front of the list.
Emit_front(l, entry) == IF Len(l) < MaxLog THEN <<entry>> \o l ELSE l

\* list.append, recorded up to MaxLog entries.
Emit(l, entry) == IF Len(l) < MaxLog THEN Append(l, entry) ELSE l

\* turn += 1, counted up to MaxTurn.
NextTurn(t) == IF t < MaxTurn THEN t + 1 ELSE t

\* The start of a simulate_battle call with arguments from the given sets.
FrameInit(names1, names2) ==
    /\ pc = "fetch1"
    /\ pokemon1 \in names1
    /\ pokemon2 \in names2
    /\ poke1 = NonePoke
    /\ poke2 = NonePoke
    /\ hp1 = 0
    /\ hp2 = 0
    /\ log = <<>>
    /\ turn = 0
    /\ first = NonePoke
    /\ second = NonePoke
    /\ first_hp = 0
    /\ second_hp = 0
    /\ first_status = NoStatus
    /\ second_status = NoStatus
    /\ first_name = <<>>
    /\ second_name = <<>>
    /\ damage = 0
    /\ new_status = NoStatus
    /\ status_log = None
    /\ winner = <<>>
    /\ result = NoResult
    /\ exc = "none"

\* No coroutine is suspended.
NoFrame == [none |-> TRUE]

\* No pure function is applied on its own.
NoUnit == [fn |-> "none"]

\* get_pokemon_info is not called.
InfoIdle ==
    /\ info_pc = "idle"
    /\ info_name = <<>>
    /\ info_data = [none |-> TRUE]
    /\ info_abilities = <<>>
    /\ info_moves = <<>>
    /\ info_resp = "none"
    /\ info_result = NoResult
    /\ info_exc = "none"

\* One simulate_battle call against the upstream data of Pokedex.
Init ==
    /\ FrameInit(RequestNames, RequestNames)
    /\ dex = Pokedex
    /\ parked = NoFrame
    /\ unit = NoUnit
    /\ InfoIdle

\* ---------------------------------------------------------------------
\* The two fetches and the check of their results
\* ---------------------------------------------------------------------

\* poke1 = await fetch_pokemon_full_data(client, pokemon1)
Fetch1 ==
    /\ pc = "fetch1"
    /\ \E resp \in HttpOutcomes, data \in dex, move_resp \in HttpOutcomes :
         LET r == fetch_pokemon_full_data(pokemon1, resp, data, move_resp)
         IN  IF r.raised # "none"
             THEN /\ pc' = "raised"
                  /\ exc' = r.raised
                  /\ UNCHANGED poke1
             ELSE /\ pc' = "fetch2"
                  /\ poke1' = r.value
                  /\ UNCHANGED exc
    /\ UNCHANGED << pokemon1, pokemon2, poke2, result >>
    /\ UNCHANGED battleVars
    /\ UNCHANGED otherVars

\* poke2 = await fetch_pokemon_full_data(client, pokemon2)
Fetch2 ==
    /\ pc = "fetch2"
    /\ \E resp \in HttpOutcomes, data \in dex, move_resp \in HttpOutcomes :
         LET r == fetch_pokemon_full_data(pokemon2, resp, data, move_resp)
         IN  IF r.raised # "none"
             THEN /\ pc' = "raised"
                  /\ exc' = r.raised
                  /\ UNCHANGED poke2
             ELSE /\ pc' = "check"
                  /\ poke2' = r.value
                  /\ UNCHANGED exc
    /\ UNCHANGED << pokemon1, pokemon2, poke1, result >>
    /\ UNCHANGED battleVars
    /\ UNCHANGED otherVars

\* if not poke1 or not poke2: return {"error": ...}
ReturnFetchError ==
    /\ pc = "check"
    /\ IsNone(poke1) \/ IsNone(poke2)
    /\ result' = [error |-> FetchErrorText]
    /\ pc' = "done"
    /\ UNCHANGED << pokemon1, pokemon2, poke1, poke2, exc >>
    /\ UNCHANGED battleVars
    /\ UNCHANGED otherVars

Speed(p) == Get(p.base_stats, "speed", DefaultSpeed)

\* speed1 > speed2 : a tie goes to poke2.
Poke1First_strict(p1, p2) == Speed(p1) > Speed(p2)

\* speed1 >= speed2 : poke1 acts first.
Poke1First(p1, p2) == Speed(p1) >= Speed(p2)

\* The initialisation of the battle state and the turn order.
StartBattle ==
    /\ pc = "check"
    /\ ~ (IsNone(poke1) \/ IsNone(poke2))
    /\ hp1' = Get(poke1.base_stats, "hp", DefaultHp)
    /\ hp2' = Get(poke2.base_stats, "hp", DefaultHp)
    /\ log' = <<>>
    /\ turn' = 1
    /\ first' = IF Poke1First(poke1, poke2) THEN poke1 ELSE poke2
    /\ second' = IF Poke1First(poke1, poke2) THEN poke2 ELSE poke1
    /\ first_hp' = IF Poke1First(poke1, poke2) THEN hp1' ELSE hp2'
    /\ second_hp' = IF Poke1First(poke1, poke2) THEN hp2' ELSE hp1'
    /\ first_status' = NoStatus
    /\ second_status' = NoStatus
    /\ first_name' = first'.name
    /\ second_name' = second'.name
    /\ pc' = "loop"
    /\ UNCHANGED << pokemon1, pokemon2, poke1, poke2, damage, new_status,
                    status_log, winner, result, exc >>
    /\ UNCHANGED otherVars

\* ---------------------------------------------------------------------
\* The battle loop
\* ---------------------------------------------------------------------

\* while first_hp > 0 and second_hp > 0:  log.append(f"Turn {turn}:")
LoopEnter ==
    /\ pc = "loop"
    /\ first_hp > 0 /\ second_hp > 0
    /\ log' = Emit(log, <<"Turn", turn>>)
    /\ pc' = "first_act"
    /\ UNCHANGED << pokemon1, pokemon2, poke1, poke2, hp1, hp2, turn, first,
                    second, first_hp, second_hp, first_status, second_status,
                    first_name, second_name, damage, new_status, status_log,
                    winner, result, exc >>
    /\ UNCHANGED otherVars

\* The loop condition is false.
LoopExit ==
    /\ pc = "loop"
    /\ ~ (first_hp > 0 /\ second_hp > 0)
    /\ pc' = "finish"
    /\ UNCHANGED << pokemon1, pokemon2, poke1, poke2, result, exc >>
    /\ UNCHANGED battleVars
    /\ UNCHANGED otherVars

\* A skipped attack that still makes its infliction attempt.
FirstSkip_inflicts ==
    /\ pc = "first_act"
    /\ first_status = STATUS_PARALYSIS
    /\ \E roll \in BOOLEAN :
         /\ new_status' = try_inflict_status(first.move, roll)
         /\ second_status' =
               IF second_status = NoStatus /\ new_status' # NoStatus
               THEN new_status' ELSE second_status
    /\ log' = Emit(log, <<"can't move", first_name>>)
    /\ pc' = "first_eot"
    /\ UNCHANGED << pokemon1, pokemon2, poke1, poke2, hp1, hp2, turn, first,
                    second, first_hp, second_hp, first_status,
                    first_name, second_name, damage, status_log,
                    winner, result, exc >>
    /\ UNCHANGED otherVars

\* first is paralysed and  random.random() < 0.25 : it cannot move.
FirstSkip ==
    /\ pc = "first_act"
    /\ first_status = STATUS_PARALYSIS
    /\ log' = Emit(log, <<"can't move", first_name>>)
    /\ pc' = "first_eot"
    /\ UNCHANGED << pokemon1, pokemon2, poke1, poke2, hp1, hp2, turn, first,
                    second, first_hp, second_hp, first_status, second_status,
                    first_name, second_name, damage, new_status, status_log,
                    winner, result, exc >>
    /\ UNCHANGED otherVars

\* The attempt is assigned whatever the defender's status is.
Inflict_overwrite(defender_status, attempt) == attempt

\* The status of the defender after an infliction attempt.
Inflict(defender_status, attempt) ==
    IF defender_status = NoStatus /\ attempt # NoStatus
    THEN attempt
    ELSE defender_status

\* first attacks second (the skip roll failed or first is not paralysed),
\* then tries to inflict a status; roll is  random.random() < 0.2.
FirstAttack ==
    /\ pc = "first_act"
    /\ IF calculate_damage_raises(first, second)
       THEN /\ pc' = "raised"
            /\ exc' = "ZeroDivisionError"
            /\ UNCHANGED << damage, second_hp, log, new_status, second_status >>
       ELSE \E roll \in BOOLEAN :
            /\ damage' = calculate_damage(first, second, first_status)
            /\ second_hp' = second_hp - damage'
            /\ new_status' = try_inflict_status(first.move, roll)
            /\ second_status' = Inflict(second_status, new_status')
            /\ log' = LET l == Emit(log, <<"uses", first_name, first.move.name, damage'>>)
                      IN  IF second_status' # second_status
                          THEN Emit(l, <<"is now", second_name, new_status'>>)
                          ELSE l
            /\ pc' = "first_eot"
            /\ UNCHANGED exc
    /\ UNCHANGED << pokemon1, pokemon2, poke1, poke2, hp1, hp2, turn, first,
                    second, first_hp, first_status, first_name, second_name,
                    status_log, winner, result >>
    /\ UNCHANGED otherVars

\* The end-of-turn effect on second without the faint check and its break.
FirstEndOfTurn_NoBreak ==
    /\ pc = "first_eot"
    /\ LET r == apply_status_effects(second_status, second_hp)
       IN  /\ second_hp' = r.hp
           /\ status_log' = r.log
           /\ log' = IF r.log # None
                     THEN Emit(log, <<"status", second_name, r.log[1]>>)
                     ELSE log
           /\ pc' = "second_act"
    /\ UNCHANGED << pokemon1, pokemon2, poke1, poke2, hp1, hp2, turn, first,
                    second, first_hp, first_status, second_status, first_name,
                    second_name, damage, new_status, winner, result, exc >>
    /\ UNCHANGED otherVars

\* End-of-turn effect on second and its faint check.
FirstEndOfTurn ==
    /\ pc = "first_eot"
    /\ LET r == apply_status_effects(second_status, second_hp)
       IN  /\ second_hp' = r.hp
           /\ status_log' = r.log
           /\ log' = LET l == IF r.log # None
                              THEN Emit(log, <<"status", second_name, r.log[1]>>)
                              ELSE log
                     IN  IF r.hp <= 0
                         THEN Emit(l, <<"fainted", second_name>>)
                         ELSE l
           /\ pc' = IF r.hp <= 0 THEN "finish" ELSE "second_act"
    /\ UNCHANGED << pokemon1, pokemon2, poke1, poke2, hp1, hp2, turn, first,
                    second, first_hp, first_status, second_status, first_name,
                    second_name, damage, new_status, winner, result, exc >>
    /\ UNCHANGED otherVars

\* second is paralysed and  random.random() < 0.25 : it cannot move.
SecondSkip ==
    /\ pc = "second_act"
    /\ second_status = STATUS_PARALYSIS
    /\ log' = Emit(log, <<"can't move", second_name>>)
    /\ pc' = "second_eot"
    /\ UNCHANGED << pokemon1, pokemon2, poke1, poke2, hp1, hp2, turn, first,
                    second, first_hp, second_hp, first_status, second_status,
                    first_name, second_name, damage, new_status, status_log,
                    winner, result, exc >>
    /\ UNCHANGED otherVars

\* second attacks first, then tries to inflict a status.
SecondAttack ==
    /\ pc = "second_act"
    /\ IF calculate_damage_raises(second, first)
       THEN /\ pc' = "raised"
            /\ exc' = "ZeroDivisionError"
            /\ UNCHANGED << damage, first_hp, log, new_status, first_status >>
       ELSE \E roll \in BOOLEAN :
            /\ damage' = calculate_damage(second, first, second_status)
            /\ first_hp' = first_hp - damage'
            /\ new_status' = try_inflict_status(second.move, roll)
            /\ first_status' = Inflict(first_status, new_status')
            /\ log' = LET l == Emit(log, <<"uses", second_name, second.move.name, damage'>>)
                      IN  IF first_status' # first_status
                          THEN Emit(l, <<"is now", first_name, new_status'>>)
                          ELSE l
            /\ pc' = "second_eot"
            /\ UNCHANGED exc
    /\ UNCHANGED << pokemon1, pokemon2, poke1, poke2, hp1, hp2, turn, first,
                    second, second_hp, second_status, first_name, second_name,
                    status_log, winner, result >>
    /\ UNCHANGED otherVars

\* The end-of-turn effect on first with  turn += 1  before the faint check.
SecondEndOfTurn_countsFaint ==
    /\ pc = "second_eot"
    /\ LET r == apply_status_effects(first_status, first_hp)
       IN  /\ first_hp' = r.hp
           /\ status_log' = r.log
           /\ log' = LET l == IF r.log # None
                              THEN Emit(log, <<"status", first_name, r.log[1]>>)
                              ELSE log
                     IN  IF r.hp <= 0
                         THEN Emit(l, <<"fainted", first_name>>)
                         ELSE l
           /\ pc' = IF r.hp <= 0 THEN "finish" ELSE "loop"
           /\ turn' = NextTurn(turn)
    /\ UNCHANGED << pokemon1, pokemon2, poke1, poke2, hp1, hp2, first, second,
                    second_hp, first_status, second_status, first_name,
                    second_name, damage, new_status, winner, result, exc >>
    /\ UNCHANGED otherVars

\* End-of-turn effect on first, its faint check, and  turn += 1.
SecondEndOfTurn ==
    /\ pc = "second_eot"
    /\ LET r == apply_status_effects(first_status, first_hp)
       IN  /\ first_hp' = r.hp
           /\ status_log' = r.log
           /\ log' = LET l == IF r.log # None
                              THEN Emit(log, <<"status", first_name, r.log[1]>>)
                              ELSE log
                     IN  IF r.hp <= 0
                         THEN Emit(l, <<"fainted", first_name>>)
                         ELSE l
           /\ pc' = IF r.hp <= 0 THEN "finish" ELSE "loop"
           /\ turn' = IF r.hp <= 0 THEN turn ELSE NextTurn(turn)
    /\ UNCHANGED << pokemon1, pokemon2, poke1, poke2, hp1, hp2, first, second,
                    second_hp, first_status, second_status, first_name,
                    second_name, damage, new_status, winner, result, exc >>
    /\ UNCHANGED otherVars

\* The two names exchanged.
WinnerOf_swapped(f_hp, f_name, s_name) == IF f_hp > 0 THEN s_name ELSE f_name

\* The name of the winner.
WinnerOf(f_hp, f_name, s_name) == IF f_hp > 0 THEN f_name ELSE s_name

\* The successful result.
BattleResult(p1, p2, l, w) ==
    [pokemon1 |-> p1.name, pokemon2 |-> p2.name, battle_log |-> l, winner |-> w]

\* winner = ...; log.append(f"Winner: {winner}!"); return {...}
Finish ==
    /\ pc = "finish"
    /\ winner' = WinnerOf(first_hp, first_name, second_name)
    /\ log' = Emit(log, <<"Winner", winner'>>)
    /\ result' = BattleResult(poke1, poke2, log', winner')
    /\ pc' = "done"
    /\ UNCHANGED << pokemon1, pokemon2, poke1, poke2, hp1, hp2, turn, first,
                    second, first_hp, second_hp, first_status, second_status,
                    first_name, second_name, damage, new_status, status_log,
                    exc >>
    /\ UNCHANGED otherVars

Next ==
    \/ Fetch1
    \/ Fetch2
    \/ ReturnFetchError
    \/ StartBattle
    \/ LoopEnter
    \/ LoopExit
    \/ FirstSkip
    \/ FirstAttack
    \/ FirstEndOfTurn
    \/ SecondSkip
    \/ SecondAttack
    \/ SecondEndOfTurn
    \/ Finish

Spec == Init /\ [][Next]_vars

TickInit ==
    /\ FrameInit(RequestNames, RequestNames)
    /\ dex = TickDex
    /\ parked = NoFrame
    /\ unit = NoUnit
    /\ InfoIdle

\* One simulate_battle call between Pokemon of TickDex.
TickSpec == TickInit /\ [][Next]_vars

\* simulate_battle is not called.
FrameIdle ==
    /\ pc = "idle"
    /\ pokemon1 = <<>>
    /\ pokemon2 = <<>>
    /\ poke1 = NonePoke
    /\ poke2 = NonePoke
    /\ hp1 = 0
    /\ hp2 = 0
    /\ log = <<>>
    /\ turn = 0
    /\ first = NonePoke
    /\ second = NonePoke
    /\ first_hp = 0
    /\ second_hp = 0
    /\ first_status = NoStatus
    /\ second_status = NoStatus
    /\ first_name = <<>>
    /\ second_name = <<>>
    /\ damage = 0
    /\ new_status = NoStatus
    /\ status_log = None
    /\ winner = <<>>
    /\ result = NoResult
    /\ exc = "none"

\* ---------------------------------------------------------------------
\* Two simulate_battle calls on one event loop
\* ---------------------------------------------------------------------

\* Pokemon records of the concurrent calls.
ConcDex ==
    { [stats |-> [hp |-> 20],
       types |-> <<"electric">>, moves |-> <<MoveShock>>],
      [stats |-> [hp |-> 0, attack |-> 0, defense |-> 0, speed |-> 0],
       types |-> <<"normal">>, moves |-> <<MoveTackle>>] }

NameMew == <<"M", "e", "w">>

NameAbra == <<"a", "b", "r", "a">>

\* The local variables of the running coroutine.
Frame ==
    [ pc |-> pc, pokemon1 |-> pokemon1, pokemon2 |-> pokemon2,
      poke1 |-> poke1, poke2 |-> poke2, hp1 |-> hp1,
      hp2 |-> hp2, log |-> log, turn |-> turn,
      first |-> first, second |-> second, first_hp |-> first_hp,
      second_hp |-> second_hp, first_status |-> first_status, second_status |-> second_status,
      first_name |-> first_name, second_name |-> second_name, damage |-> damage,
      new_status |-> new_status, status_log |-> status_log, winner |-> winner,
      result |-> result, exc |-> exc ]

\* The frame of a call that has not run yet.
NewFrame(name1, name2) ==
    [ pc |-> "fetch1", pokemon1 |-> name1, pokemon2 |-> name2,
      poke1 |-> NonePoke, poke2 |-> NonePoke, hp1 |-> 0,
      hp2 |-> 0, log |-> <<>>, turn |-> 0,
      first |-> NonePoke, second |-> NonePoke, first_hp |-> 0,
      second_hp |-> 0, first_status |-> NoStatus, second_status |-> NoStatus,
      first_name |-> <<>>, second_name |-> <<>>, damage |-> 0,
      new_status |-> NoStatus, status_log |-> None, winner |-> <<>>,
      result |-> NoResult, exc |-> "none" ]

\* The places where a coroutine hands control to the event loop: the awaits
\* of the two fetches, and its end.
AwaitPoints == {"fetch1", "fetch2", "done", "raised"}

\* The log stays where it is when the coroutines are switched.
Switch_sharedLog ==
    /\ pc \in AwaitPoints
    /\ "pc" \in DOMAIN parked
    /\ parked.pc \in {"fetch1", "fetch2"}
    /\ parked' = Frame
    /\ pc' = parked.pc
    /\ pokemon1' = parked.pokemon1
    /\ pokemon2' = parked.pokemon2
    /\ poke1' = parked.poke1
    /\ poke2' = parked.poke2
    /\ hp1' = parked.hp1
    /\ hp2' = parked.hp2
    /\ turn' = parked.turn
    /\ first' = parked.first
    /\ second' = parked.second
    /\ first_hp' = parked.first_hp
    /\ second_hp' = parked.second_hp
    /\ first_status' = parked.first_status
    /\ second_status' = parked.second_status
    /\ first_name' = parked.first_name
    /\ second_name' = parked.second_name
    /\ damage' = parked.damage
    /\ new_status' = parked.new_status
    /\ status_log' = parked.status_log
    /\ winner' = parked.winner
    /\ result' = parked.result
    /\ exc' = parked.exc
    /\ UNCHANGED log
    /\ UNCHANGED << dex, unit, infoVars >>

\* The running coroutine is suspended at an await, or has ended, and the
\* event loop resumes the other one.
Switch ==
    /\ pc \in AwaitPoints
    /\ "pc" \in DOMAIN parked
    /\ parked.pc \in {"fetch1", "fetch2"}
    /\ parked' = Frame
    /\ pc' = parked.pc
    /\ pokemon1' = parked.pokemon1
    /\ pokemon2' = parked.pokemon2
    /\ poke1' = parked.poke1
    /\ poke2' = parked.poke2
    /\ hp1' = parked.hp1
    /\ hp2' = parked.hp2
    /\ log' = parked.log
    /\ turn' = parked.turn
    /\ first' = parked.first
    /\ second' = parked.second
    /\ first_hp' = parked.first_hp
    /\ second_hp' = parked.second_hp
    /\ first_status' = parked.first_status
    /\ second_status' = parked.second_status
    /\ first_name' = parked.first_name
    /\ second_name' = parked.second_name
    /\ damage' = parked.damage
    /\ new_status' = parked.new_status
    /\ status_log' = parked.status_log
    /\ winner' = parked.winner
    /\ result' = parked.result
    /\ exc' = parked.exc
    /\ UNCHANGED << dex, unit, infoVars >>

ConcInit ==
    /\ FrameInit({NameMew}, {NameMew})
    /\ parked = NewFrame(NameAbra, NameAbra)
    /\ dex = ConcDex
    /\ unit = NoUnit
    /\ InfoIdle

ConcNext ==
    \/ Next
    \/ Switch

\* Two simulate_battle calls interleaved at their awaits.
ConcSpec == ConcInit /\ [][ConcNext]_vars

\* ---------------------------------------------------------------------
\* Direct applications of the pure functions
\* ---------------------------------------------------------------------

\* Longest list of defending types applied.
MaxTypes == 2

TxtBurnParalyze == <<"B", "u", "r", "n", " ", "o", "r", " ", "P", "a", "r", "a", "l", "y", "z", "e">>

TxtPoisonBurn == <<"p", "o", "i", "s", "o", "n", " ", "t", "h", "e", "n", " ", "B", "U", "R", "N">>

TxtSunburnt == <<"S", "u", "n", "b", "u", "r", "n", "t", ".">>

TxtParalysis == <<"C", "a", "u", "s", "e", "s", " ", "p", "a", "r", "a", "l", "y", "s", "i", "s", ".">>

TxtPlain == <<"H", "i", "t", "s", " ", "h", "a", "r", "d", ".">>

\* Effect texts with the status of the first keyword, in the order
\* paralyze, burn, poison, that occurs in them whatever the case.
InflictCalls ==
    { [fn |-> "try_inflict_status", effect |-> x[1], expect |-> x[2],
       done |-> FALSE, roll |-> FALSE, rolls |-> 0, out |-> NoStatus] :
        x \in { <<None, NoStatus>>,
                <<Some(<<>>), NoStatus>>,
                <<Some(TxtPlain), NoStatus>>,
                <<Some(TxtParalysis), NoStatus>>,
                <<Some(TxtParalyze), STATUS_PARALYSIS>>,
                <<Some(TxtBurn), STATUS_BURN>>,
                <<Some(TxtPoison), STATUS_POISON>>,
                <<Some(TxtSunburnt), STATUS_BURN>>,
                <<Some(TxtBurnParalyze), STATUS_PARALYSIS>>,
                <<Some(TxtPoisonBurn), STATUS_BURN>> } }

\* Attacking types: every key of the table and one it does not have.
AttackTypes == DOMAIN TYPE_EFFECTIVENESS \cup {"shadow"}

DefendingTypes == {"fire", "flying", "ghost", "ground", "grass", "shadow"}

TypeLists == UNION { [1..n -> DefendingTypes] : n \in 0..MaxTypes }

MultiplierCalls ==
    { [fn |-> "get_type_multiplier", attack_type |-> a, defender_types |-> ts,
       done |-> FALSE, out |-> [num |-> 0, den |-> 1]] :
        a \in AttackTypes, ts \in TypeLists }

\* Stats with or without the key.
StatsOf(k, values) ==
    { [x \in {k} |-> v] : v \in values } \cup { [x \in {} |-> 0] }

DamageCalls ==
    { [fn |-> "calculate_damage",
       attacker |-> [base_stats |-> a,
                     move |-> [power |-> p, type |-> t[1]]],
       defender |-> [base_stats |-> d, types |-> t[2]],
       status |-> st, done |-> FALSE, raised |-> FALSE, out |-> 0] :
        a \in StatsOf("attack", {0, 1, 2, 3, 25, 51, 100, 255}),
        d \in StatsOf("defense", {0, 1, 50, 100}),
        p \in {None, Some(0), Some(40), Some(120)},
        t \in { <<"normal", <<"normal">>>>, <<"fire", <<"grass", "bug">>>>,
                <<"water", <<"grass">>>>, <<"normal", <<"ghost">>>> },
        st \in {NoStatus, STATUS_PARALYSIS, STATUS_BURN, STATUS_POISON} }

\* try_inflict_status(move) is called.
ApplyInflict ==
    /\ unit.fn = "try_inflict_status"
    /\ ~unit.done
    /\ \E roll \in BOOLEAN :
         unit' = [unit EXCEPT
                    !.done = TRUE,
                    !.roll = roll,
                    !.rolls = try_inflict_status_rolls([effect |-> unit.effect]),
                    !.out = try_inflict_status([effect |-> unit.effect], roll)]
    /\ UNCHANGED << frameVars, dex, parked, infoVars >>

\* get_type_multiplier(attack_type, defender_types) is called.
ApplyMultiplier ==
    /\ unit.fn = "get_type_multiplier"
    /\ ~unit.done
    /\ unit' = [unit EXCEPT
                  !.done = TRUE,
                  !.out = get_type_multiplier(unit.attack_type,
                                              unit.defender_types)]
    /\ UNCHANGED << frameVars, dex, parked, infoVars >>

\* calculate_damage(attacker, defender, status) is called.
ApplyDamage ==
    /\ unit.fn = "calculate_damage"
    /\ ~unit.done
    /\ unit' = IF calculate_damage_raises(unit.attacker, unit.defender)
               THEN [unit EXCEPT !.done = TRUE, !.raised = TRUE]
               ELSE [unit EXCEPT
                       !.done = TRUE,
                       !.out = calculate_damage(unit.attacker, unit.defender,
                                                unit.status)]
    /\ UNCHANGED << frameVars, dex, parked, infoVars >>

UnitInit ==
    /\ FrameIdle
    /\ dex = Pokedex
    /\ parked = NoFrame
    /\ InfoIdle
    /\ unit \in InflictCalls \cup MultiplierCalls \cup DamageCalls

UnitNext ==
    \/ ApplyInflict
    \/ ApplyMultiplier
    \/ ApplyDamage

\* One call of a pure function.
UnitSpec == UnitInit /\ [][UnitNext]_vars

\* ---------------------------------------------------------------------
\* get_pokemon_info
\* ---------------------------------------------------------------------

\* Only the first 10 moves are fetched.
MovesShown == 10

\* Ability and move entries of a Pokemon record, and the effect entries
\* their endpoints return.
AbilityEntries(n) == [i \in 1..n |-> [name |-> <<"ability", i>>]]

MoveEntries(n) == [i \in 1..n |-> [name |-> <<"move", i>>]]

EffectEntriesOf(i) ==
    IF i % 2 = 0 THEN <<>> ELSE Entries(TxtBurn)

\* Pokemon records as get_pokemon_info reads them (name apart).
InfoDex ==
    { [id |-> 25, stats |-> [hp |-> 35, speed |-> 90], types |-> <<"electric">>,
       abilities |-> AbilityEntries(a), moves |-> MoveEntries(m)] :
          a \in {0, 2}, m \in {0, 2, MovesShown + 1} }

\* Evolution chains: each stage has a species and the stages it evolves to.
ChainEnd(n) == [species |-> [name |-> n], evolves_to |-> <<>>]

EvolutionChains ==
    { ChainEnd("mew"),
      [species |-> [name |-> "abra"],
       evolves_to |-> << [species |-> [name |-> "kadabra"],
                          evolves_to |-> <<ChainEnd("alakazam")>>] >>],
      [species |-> [name |-> "eevee"],
       evolves_to |-> <<ChainEnd("vaporeon"), ChainEnd("jolteon")>>] }

\* parse_evolution_chain: the species along the first branch.
RECURSIVE parse_evolution_chain(_)
parse_evolution_chain(chain) ==
    <<chain.species.name>> \o
        (IF chain.evolves_to # <<>>
         THEN parse_evolution_chain(chain.evolves_to[1])
         ELSE <<>>)

\* The exception a request ends with: client.get raises httpx.RequestError,
\* raise_for_status raises httpx.HTTPStatusError, and indexing JSON that
\* lacks a key raises KeyError.
RaisedBy(resp) ==
    IF resp = "transport" THEN "RequestError"
    ELSE IF resp = "non200" THEN "HTTPStatusError"
    ELSE IF resp = "malformed" THEN "KeyError"
    ELSE "none"

\* Only httpx.HTTPStatusError is caught.
InfoCaught_statusOnly(e) == e = "HTTPStatusError"

\* The two except clauses of get_pokemon_info.
InfoCaught(e) == e \in {"HTTPStatusError", "RequestError"}

\* The error result of an except clause.
InfoError(e) ==
    IF e = "HTTPStatusError"
    THEN [error |-> <<"HTTP error: ", e>>]
    ELSE [error |-> <<"Request error: ", e>>]

\* A request failed: an except clause returns the error result, or the
\* exception leaves get_pokemon_info.
InfoRaise(resp) ==
    /\ info_resp' = resp
    /\ IF InfoCaught(RaisedBy(resp))
       THEN /\ info_pc' = "done"
            /\ info_result' = InfoError(RaisedBy(resp))
            /\ UNCHANGED info_exc
       ELSE /\ info_pc' = "raised"
            /\ info_exc' = RaisedBy(resp)
            /\ UNCHANGED info_result

\* The request that follows once na abilities and nm moves are collected.
InfoStage(data, na, nm) ==
    IF na < Len(data.abilities) THEN "ability"
    ELSE IF nm < Len(data.moves) /\ nm < MovesShown THEN "move"
    ELSE "species"

\* The main Pokemon request.
InfoGetPokemon ==
    /\ info_pc = "pokemon"
    /\ \E resp \in HttpOutcomes, data \in InfoDex :
         IF resp # "ok"
         THEN InfoRaise(resp) /\ UNCHANGED info_data
         ELSE /\ info_resp' = resp
              /\ info_data' = [name |-> Lower(info_name)] @@ data
              /\ info_pc' = InfoStage(data, 0, 0)
              /\ UNCHANGED << info_result, info_exc >>
    /\ UNCHANGED << info_name, info_abilities, info_moves >>
    /\ UNCHANGED << frameVars, dex, parked, unit >>

\* The request of the next ability.
InfoGetAbility ==
    /\ info_pc = "ability"
    /\ \E resp \in HttpOutcomes :
         IF resp # "ok"
         THEN InfoRaise(resp) /\ UNCHANGED info_abilities
         ELSE LET i == Len(info_abilities) + 1
              IN  /\ info_resp' = resp
                  /\ info_abilities' =
                        Append(info_abilities,
                               [name |-> info_data.abilities[i].name,
                                effect |-> FirstEnglish(EffectEntriesOf(i), 1)])
                  /\ info_pc' = InfoStage(info_data, i, 0)
                  /\ UNCHANGED << info_result, info_exc >>
    /\ UNCHANGED << info_name, info_data, info_moves >>
    /\ UNCHANGED << frameVars, dex, parked, unit >>

\* The request of the next of the first MovesShown moves.
InfoGetMove ==
    /\ info_pc = "move"
    /\ \E resp \in HttpOutcomes :
         IF resp # "ok"
         THEN InfoRaise(resp) /\ UNCHANGED info_moves
         ELSE LET i == Len(info_moves) + 1
              IN  /\ info_resp' = resp
                  /\ info_moves' =
                        Append(info_moves,
                               [name |-> info_data.moves[i].name,
                                effect |-> FirstEnglish(EffectEntriesOf(i), 1)])
                  /\ info_pc' = InfoStage(info_data, Len(info_abilities), i)
                  /\ UNCHANGED << info_result, info_exc >>
    /\ UNCHANGED << info_name, info_data, info_abilities >>
    /\ UNCHANGED << frameVars, dex, parked, unit >>

\* The species request.
InfoGetSpecies ==
    /\ info_pc = "species"
    /\ \E resp \in HttpOutcomes :
         IF resp # "ok"
         THEN InfoRaise(resp)
         ELSE /\ info_resp' = resp
              /\ info_pc' = "evolution"
              /\ UNCHANGED << info_result, info_exc >>
    /\ UNCHANGED << info_name, info_data, info_abilities, info_moves >>
    /\ UNCHANGED << frameVars, dex, parked, unit >>

\* The evolution chain request and the return of the information.
InfoGetEvolution ==
    /\ info_pc = "evolution"
    /\ \E resp \in HttpOutcomes, chain \in EvolutionChains :
         IF resp # "ok"
         THEN InfoRaise(resp)
         ELSE /\ info_resp' = resp
              /\ info_result' =
                    [name |-> info_data.name,
                     id |-> info_data.id,
                     base_stats |-> info_data.stats,
                     types |-> info_data.types,
                     abilities |-> info_abilities,
                     moves |-> info_moves,
                     evolution_chain |-> parse_evolution_chain(chain)]
              /\ info_pc' = "done"
              /\ UNCHANGED info_exc
    /\ UNCHANGED << info_name, info_data, info_abilities, info_moves >>
    /\ UNCHANGED << frameVars, dex, parked, unit >>

InfoInit ==
    /\ FrameIdle
    /\ dex = Pokedex
    /\ parked = NoFrame
    /\ unit = NoUnit
    /\ info_pc = "pokemon"
    /\ info_name \in RequestNames
    /\ info_data = [none |-> TRUE]
    /\ info_abilities = <<>>
    /\ info_moves = <<>>
    /\ info_resp = "none"
    /\ info_result = NoResult
    /\ info_exc = "none"

InfoNext ==
    \/ InfoGetPokemon
    \/ InfoGetAbility
    \/ InfoGetMove
    \/ InfoGetSpecies
    \/ InfoGetEvolution

\* One get_pokemon_info call.
InfoSpec == InfoInit /\ [][InfoNext]_vars

\* The code runs sequentially without suspension once started: whenever a
\* step of simulate_battle is possible, a step is taken.  Nothing is assumed
\* about the outcome of the rolls.
FairSpec == Init /\ [][Next]_vars /\ WF_vars(Next)

\* ---------------------------------------------------------------------
\* Claims
\* ---------------------------------------------------------------------

\* The battle has been set up: both fetches returned a descriptor.
BattleStarted == ~ IsNone(first)

\* simulate_battle has left the battle loop, by a fainted side or by an
\* exception of the damage calculation.
LoopLeft == pc \in {"finish", "done", "raised"}

\* The log holds every entry appended so far.
LogComplete == Len(log) < MaxLog

\* C1 as stated: once both combatants are resolved the battle loop
\* terminates in every execution, whatever the paralysis-skip and infliction
\* rolls give.  Leaving the loop by an exception is counted as leaving here,
\* so only an execution that stays in the loop forever violates it.
C1_LoopTerminates == BattleStarted ~> LoopLeft

\* C1 amended: the battle loop terminates in every execution in which the
\* paralysis-skip rolls do not succeed forever, that is, in which a side that
\* comes to act again and again eventually executes its attack.
C1_LoopTerminatesFairRolls ==
    (SF_vars(FirstAttack) /\ SF_vars(SecondAttack)) => (BattleStarted ~> LoopLeft)

\* C1 witness: a battle in which a paralysis skip happened has ended with a
\* fainted side.
C1_Witness ==
    /\ pc = "done"
    /\ LogComplete
    /\ first_hp <= 0 \/ second_hp <= 0
    /\ \E i \in 1..Len(log) : log[i][1] = "can't move"

\* simulate_battle returned a battle result (not an error result).
Completed == pc = "done" /\ "winner" \in DOMAIN result

\* At least one combatant starts the battle with health above 0.
SomeoneStartsAlive == hp1 > 0 \/ hp2 > 0

\* A side whose health is <= 0 is never about to attack or to skip.
ActsAlive ==
    /\ pc = "first_act" => (first_hp > 0 /\ second_hp > 0)
    /\ pc = "second_act" => (first_hp > 0 /\ second_hp > 0)

\* C2 as stated: when simulate_battle finishes at most one side has health
\* <= 0, for all descriptors with non-negative stats, and a side with health
\* <= 0 never acts.
C2_NoDoubleFaint ==
    /\ ActsAlive
    /\ Completed => ~ (first_hp <= 0 /\ second_hp <= 0)

\* C2 amended: the same for all descriptors with non-negative stats of which
\* at least one has a starting hp above 0 (with both at 0 the loop body never
\* runs and both sides finish at health 0).
C2_NoDoubleFaintIfStartAlive ==
    /\ ActsAlive
    /\ (Completed /\ SomeoneStartsAlive) => ~ (first_hp <= 0 /\ second_hp <= 0)

\* C2 witness: the side that acts first fainted in the second half of a
\* round and the other side is still standing.
C2_Witness ==
    /\ Completed
    /\ hp1 > 0 /\ hp2 > 0
    /\ first_hp <= 0
    /\ second_hp > 0

\* The returned winner is the side with health > 0, the other side has
\* health <= 0, and the log ends with the Winner entry of that name.
WinnerIsSurvivor ==
    /\ \/ result.winner = first_name /\ first_hp > 0 /\ second_hp <= 0
       \/ result.winner = second_name /\ second_hp > 0 /\ first_hp <= 0
    /\ LogComplete =>
          /\ result.battle_log = log
          /\ log[Len(log)] = <<"Winner", result.winner>>

\* C3 as stated: for every completed battle the winner returned and logged is
\* the combatant with health > 0, and the other one has health <= 0.
C3_WinnerSurvives == Completed => WinnerIsSurvivor

\* C3 amended: the same for every completed battle in which at least one
\* combatant starts with health above 0.
C3_WinnerSurvivesIfStartAlive ==
    (Completed /\ SomeoneStartsAlive) => WinnerIsSurvivor

\* C3 witness: a battle between differently named combatants is won by the
\* side that acts first.
C3_Witness ==
    /\ Completed
    /\ LogComplete
    /\ first_name # second_name
    /\ result.winner = first_name
    /\ hp1 > 0 /\ hp2 > 0

\* C4: calculate_damage never fails and every executed attack deals an
\* integer damage of at least 1, for all non-negative stats (0 included).
C4_DamageNeverFails ==
    /\ exc # "ZeroDivisionError"
    /\ \A i \in 1..Len(log) : log[i][1] = "uses" => log[i][4] >= 1

\* C5: when the first fetch gives a descriptor and the second gives None,
\* the result is exactly the error naming pokemon2, and nothing of the battle
\* has run.
C5_ErrorNamesSecond ==
    (pc = "done" /\ ~ IsNone(poke1) /\ IsNone(poke2)) =>
        /\ result = [error |-> <<"Could not fetch data for ", pokemon2, ".">>]
        /\ log = <<>>
        /\ damage = 0
        /\ new_status = NoStatus

\* C6: no failure of a fetch leaves simulate_battle as an exception; the
\* invocation ends with an error result instead.
C6_FetchNeverRaises == ~ (pc = "raised" /\ exc \in {"RequestError", "KeyError"})

\* The descriptor of the end-to-end scenario with the given speed.
ScenarioSide(p, speed) ==
    /\ p.base_stats = [hp |-> 100, attack |-> 100, defense |-> 100, speed |-> speed]
    /\ p.types = <<"normal">>
    /\ p.move.power = Some(50)
    /\ p.move.type = "normal"
    /\ p.move.effect = None

\* The battle is the end-to-end scenario, in either order of the arguments.
Scenario ==
    /\ BattleStarted
    /\ \/ ScenarioSide(poke1, 100) /\ ScenarioSide(poke2, 50)
       \/ ScenarioSide(poke1, 50) /\ ScenarioSide(poke2, 100)

\* Every hit of the scenario deals d damage, the battle ends after exactly n
\* hits on the losing side, and the winner is the faster side.
ScenarioRuns(d, n) ==
    /\ \A i \in 1..Len(log) : log[i][1] = "uses" => log[i][4] = d
    /\ Completed =>
          /\ second_hp = 100 - n * d
          /\ second_hp <= 0
          /\ first_hp = 100 - (n - 1) * d
          /\ first_hp > 0
          /\ turn = n
          /\ Cardinality({i \in 1..Len(log) : log[i][1] = "uses"}) = 2 * n - 1
          /\ result.winner = first_name
          /\ Speed(first) = 100

\* C7 as stated: in the scenario every hit deals 14 and the attacked side
\* is down after exactly 8 hits; the faster side wins.
C7_Scenario14 == Scenario => ScenarioRuns(14, 8)

\* C7 amended: in the scenario every hit deals 24 and the attacked side is
\* down after exactly 5 hits; the faster side wins.
C7_Scenario24 == Scenario => ScenarioRuns(24, 5)

\* C7 witness: the scenario has run to its end with the faster combatant
\* given as the second argument.
C7_Witness ==
    /\ Scenario
    /\ Completed
    /\ ScenarioSide(poke2, 100)

Statuses == {NoStatus, STATUS_PARALYSIS, STATUS_BURN, STATUS_POISON}

\* C8: each side always has exactly one value of {none, paralysis, burn,
\* poison} as its status, and a status that is not none is kept by every
\* later step, a successful later infliction roll included.
C8_StatusPermanent ==
    /\ [](first_status \in Statuses /\ second_status \in Statuses)
    /\ [][ /\ first_status # NoStatus => first_status' = first_status
           /\ second_status # NoStatus => second_status' = second_status ]_vars

\* C8 witness: an infliction roll has just succeeded against a side that
\* already had a status (the attack entry is the last one: no new status
\* was narrated).
C8_Witness ==
    /\ pc = "first_eot"
    /\ LogComplete
    /\ log[Len(log)][1] = "uses"
    /\ new_status # NoStatus
    /\ second_status # NoStatus

\* The actions (attack or skip) narrated since the last Turn entry.
RoundActs ==
    LET turns == {i \in 1..Len(log) : log[i][1] = "Turn"}
        last == IF turns = {} THEN 0
                ELSE CHOOSE i \in turns : \A j \in turns : j <= i
    IN  SelectSeq(SubSeq(log, last + 1, Len(log)),
                  LAMBDA e : e[1] \in {"uses", "can't move"})

\* In the running round first has acted before second.
FirstActsBeforeSecond ==
    /\ Len(RoundActs) <= 2
    /\ Len(RoundActs) >= 1 => RoundActs[1][2] = first_name
    /\ Len(RoundActs) = 2 => RoundActs[2][2] = second_name
    /\ pc = "first_act" => Len(RoundActs) = 0
    /\ pc \in {"first_eot", "second_act"} => Len(RoundActs) = 1
    /\ pc = "second_eot" => Len(RoundActs) = 2

\* first is poke1 iff speed1 >= speed2.
OrderBySpeed ==
    IF Speed(poke1) >= Speed(poke2)
    THEN first = poke1 /\ second = poke2 /\ first_name = poke1.name
         /\ second_name = poke2.name
    ELSE first = poke2 /\ second = poke1 /\ first_name = poke2.name
         /\ second_name = poke1.name

\* C9: first is pokemon1 iff speed1 >= speed2 (absent speed is 50), in every
\* round the action of first comes before the action of second, and the
\* order is never recomputed.
C9_TurnOrderFixed ==
    /\ [](IF BattleStarted THEN OrderBySpeed ELSE TRUE)
    /\ [](IF BattleStarted /\ LogComplete /\ log # <<>>
          THEN FirstActsBeforeSecond
          ELSE TRUE)
    /\ [][BattleStarted => (first' = first /\ second' = second)]_vars

\* C9 witness: in a later round of a battle between different combatants of
\* equal speed, pokemon1's side has acted and pokemon2's side is about to.
C9_Witness ==
    /\ pc = "second_act"
    /\ turn >= 2
    /\ LogComplete
    /\ poke1 # poke2
    /\ Speed(poke1) = Speed(poke2)
    /\ first = poke1

\* C10: every battle result holds both names, the starting health of both
\* (initial_hp), the log and the winner.
C10_ResultHasInitialHp ==
    Completed =>
        /\ DOMAIN result = {"pokemon1", "pokemon2", "initial_hp", "battle_log", "winner"}
        /\ result.pokemon1 = poke1.name
        /\ result.pokemon2 = poke2.name
        /\ result.initial_hp[poke1.name] = hp1
        /\ result.initial_hp[poke2.name] = hp2
        /\ result.battle_log = log
        /\ result.winner = winner

\* C11: when a request of get_pokemon_info ends with a non-success status or
\* a transport error, the call returns an {error: ...} object; no
\* HTTPStatusError or RequestError ever leaves get_pokemon_info.
C11_InfoReturnsError ==
    /\ info_exc \notin {"HTTPStatusError", "RequestError"}
    /\ info_resp \in {"non200", "transport"} =>
          /\ info_pc = "done"
          /\ DOMAIN info_result = {"error"}

\* C11 witness: a transport error on a move request, after the abilities
\* were fetched, has been turned into the error result.
C11_Witness ==
    /\ info_pc = "done"
    /\ info_resp = "transport"
    /\ Len(info_abilities) = 2
    /\ Len(info_moves) >= 1
    /\ "error" \in DOMAIN info_result

\* The step appends an attack narration as its first new entry.
AttackNarrated == Len(log') > Len(log) /\ log'[Len(log) + 1][1] = "uses"

\* The half-round of an acting side: skipped (the side is paralysed, only
\* the "can't move" entry is appended, nothing of the defender changes and no
\* infliction result is assigned) or an executed attack whose infliction
\* result reaches the defender only if the defender has no status.
HalfRound(acting_status, acting_name, defender_hp, defender_hp2,
          defender_status, defender_status2) ==
    \/ /\ acting_status = STATUS_PARALYSIS
       /\ log' = Append(log, <<"can't move", acting_name>>)
       /\ defender_hp2 = defender_hp
       /\ defender_status2 = defender_status
       /\ UNCHANGED << damage, new_status >>
    \/ /\ AttackNarrated
       /\ defender_hp2 = defender_hp - damage'
       /\ defender_status2 =
             IF defender_status = NoStatus /\ new_status' # NoStatus
             THEN new_status' ELSE defender_status

\* C12: a half-round is either a skip by a paralysed side (no attack damage,
\* no infliction, only the "can't move" narration) or an executed attack; an
\* infliction result is assigned and a status changes only in the step of
\* an executed attack, and only a defender whose status is none receives it.
C12_SkipAndGating ==
    [][ /\ IF pc = "first_act" /\ pc' = "first_eot" /\ Len(log) + 2 <= MaxLog
           THEN HalfRound(first_status, first_name, second_hp, second_hp',
                          second_status, second_status')
           ELSE TRUE
        /\ IF pc = "second_act" /\ pc' = "second_eot" /\ Len(log) + 2 <= MaxLog
           THEN HalfRound(second_status, second_name, first_hp, first_hp',
                          first_status, first_status')
           ELSE TRUE
        /\ IF second_status' # second_status /\ Len(log) + 2 <= MaxLog
           THEN pc = "first_act" /\ second_status = NoStatus /\ AttackNarrated
           ELSE TRUE
        /\ IF first_status' # first_status /\ Len(log) + 2 <= MaxLog
           THEN pc = "second_act" /\ first_status = NoStatus /\ AttackNarrated
           ELSE TRUE
        /\ IF new_status' # new_status /\ Len(log) + 2 <= MaxLog
           THEN pc \in {"first_act", "second_act"} /\ AttackNarrated
           ELSE TRUE ]_vars

\* C12 witness: a paralysed side whose move can paralyse has just been
\* skipped against a defender that has no status.
C12_Witness ==
    /\ pc = "first_eot"
    /\ LogComplete
    /\ log[Len(log)] = <<"can't move", first_name>>
    /\ first_status = STATUS_PARALYSIS
    /\ second_status = NoStatus
    /\ try_inflict_status(first.move, TRUE) # NoStatus

\* What the end-of-turn effect takes from health h under a status.
StatusLoss(status, h) ==
    IF status = STATUS_BURN THEN (IF h \div 16 >= 1 THEN h \div 16 ELSE 1)
    ELSE IF status = STATUS_POISON THEN (IF h \div 8 >= 1 THEN h \div 8 ELSE 1)
    ELSE 0

\* The narration fragment of a loss under a status.
StatusFragment(status, loss) ==
    IF status = STATUS_BURN THEN <<"Burn deals", loss>>
    ELSE <<"Poison deals", loss>>

\* The end-of-turn step on a defender: its health drops by StatusLoss, the
\* narration reports exactly the amount taken (none for paralysis or no
\* status), and the faint check sees the health after the effect.
EndOfTurn(status, h, h2, name, fainted_pc, next_pc) ==
    /\ h2 = h - StatusLoss(status, h)
    /\ IF status \in {STATUS_BURN, STATUS_POISON}
       THEN /\ Len(log') > Len(log)
            /\ log'[Len(log) + 1] = <<"status", name, StatusFragment(status, h - h2)>>
            /\ status_log' = Some(StatusFragment(status, h - h2))
       ELSE /\ status_log' = None
            /\ \A i \in Len(log) + 1 .. Len(log') : log'[i][1] # "status"
    /\ pc' = IF h2 <= 0 THEN fainted_pc ELSE next_pc
    /\ status = STATUS_BURN /\ h \in {160, 161} => h2 = h - 10
    /\ status = STATUS_POISON /\ h = 80 => h2 = 70

\* C13: in each half-round the step between the action and the faint check
\* lowers the defender's health h by max(1, floor(h/16)) under burn and
\* max(1, floor(h/8)) under poison, and leaves it unchanged with no
\* narration under paralysis or no status; burn at 160 or 161 deals 10,
\* poison at 80 deals 10, and the narration reports the amount subtracted.
C13_EndOfTurnEffect ==
    [][ /\ IF pc = "first_eot" /\ Len(log) + 2 <= MaxLog
           THEN EndOfTurn(second_status, second_hp, second_hp', second_name,
                          "finish", "second_act")
           ELSE TRUE
        /\ IF pc = "second_eot" /\ Len(log) + 2 <= MaxLog
           THEN EndOfTurn(first_status, first_hp, first_hp', first_name,
                          "finish", "loop")
           ELSE TRUE
        /\ IF pc \in {"first_act", "second_act"}
           THEN pc' \in {"first_eot", "second_eot", "raised"}
           ELSE TRUE ]_vars

\* C13 witness: burn has just dealt 10 to a defender whose health was 161.
C13_Witness ==
    /\ pc = "second_act"
    /\ LogComplete
    /\ second_status = STATUS_BURN
    /\ second_hp = 151
    /\ log[Len(log)] = <<"status", second_name, <<"Burn deals", 10>>>>

\* Burn at 160 and poison at 80 are met as well.
C13_WitnessBurn160 ==
    /\ pc = "second_act"
    /\ second_hp = 150
    /\ log[Len(log)] = <<"status", second_name, <<"Burn deals", 10>>>>

C13_WitnessPoison80 ==
    /\ pc = "second_act"
    /\ second_hp = 70
    /\ log[Len(log)] = <<"status", second_name, <<"Poison deals", 10>>>>

\* C14: try_inflict_status returns the status of the first keyword, in the
\* order paralyze, burn, poison, that occurs in the effect text whatever its
\* case, or none; when a keyword occurs exactly one roll is made and decides
\* between the two, and for a null text or one without a keyword none is
\* returned and no roll is made.
C14_InflictClassifies ==
    (unit.fn = "try_inflict_status" /\ unit.done) =>
        /\ unit.out \in {unit.expect, NoStatus}
        /\ unit.expect # NoStatus =>
              /\ unit.rolls = 1
              /\ unit.out = (IF unit.roll THEN unit.expect ELSE NoStatus)
        /\ unit.expect = NoStatus =>
              /\ unit.rolls = 0
              /\ unit.out = NoStatus

\* C14 witness: a text naming burn before paralyze, in mixed case, has
\* given paralysis.
C14_Witness ==
    /\ unit.fn = "try_inflict_status"
    /\ unit.done
    /\ unit.effect = Some(TxtBurnParalyze)
    /\ unit.out = STATUS_PARALYSIS

\* The table's factor of one attacking and one defending type, in halves:
\* 2 (that is 1.0) where the table has no entry.
Effectiveness(attack_type, d_type) ==
    IF attack_type \in DOMAIN TYPE_EFFECTIVENESS
    THEN IF d_type \in DOMAIN TYPE_EFFECTIVENESS[attack_type]
         THEN TYPE_EFFECTIVENESS[attack_type][d_type]
         ELSE 2
    ELSE 2

\* The product of the factors of all defending types, in units of 2^-n.
FactorProduct(attack_type, types) ==
    LET f[i \in 0..Len(types)] ==
            IF i = 0 THEN 1 ELSE f[i - 1] * Effectiveness(attack_type, types[i])
    IN  f[Len(types)]

Pow2(n) == LET f[i \in 0..n] == IF i = 0 THEN 1 ELSE 2 * f[i - 1] IN f[n]

\* C16: get_type_multiplier is the product, over all defending types, of the
\* table's factor for the attacking type, 1.0 standing for a missing entry;
\* water against [fire, flying] gives 2.0, and an immunity anywhere in the
\* list gives 0.0.
C16_MultiplierIsProduct ==
    (unit.fn = "get_type_multiplier" /\ unit.done) =>
        LET a == unit.attack_type
            ts == unit.defender_types
        IN  /\ unit.out.den > 0
            /\ unit.out.num * Pow2(Len(ts)) = FactorProduct(a, ts) * unit.out.den
            /\ (a = "water" /\ ts = <<"fire", "flying">>) =>
                  unit.out.num = 2 * unit.out.den
            /\ (\E i \in 1..Len(ts) : Effectiveness(a, ts[i]) = 0) =>
                  unit.out.num = 0
            /\ (a = "shadow" \/ \A i \in 1..Len(ts) : ts[i] = "shadow") =>
                  unit.out.num = unit.out.den

\* C16 witness: the multiplier of water against [fire, flying] is 2.0.
C16_Witness ==
    /\ unit.fn = "get_type_multiplier"
    /\ unit.done
    /\ unit.attack_type = "water"
    /\ unit.defender_types = <<"fire", "flying">>
    /\ unit.out.num = 2 * unit.out.den

\* An immunity in second place gives 0.0 as well.
C16_WitnessImmune ==
    /\ unit.fn = "get_type_multiplier"
    /\ unit.done
    /\ unit.attack_type = "electric"
    /\ unit.defender_types = <<"flying", "ground">>
    /\ unit.out.num = 0

\* The attacker with its attack stat replaced by floor(attack / 2).
Halved(attacker) ==
    [attacker EXCEPT
       !.base_stats =
          [k \in {"attack"} |->
             (IF "attack" \in DOMAIN attacker.base_stats
              THEN attacker.base_stats.attack ELSE DefaultAttack) \div 2]]

\* C17: the damage of a burned attacker with attack A is the damage of an
\* attacker without status whose attack is floor(A / 2), and paralysis and
\* poison leave the damage as it is without status.
C17_BurnHalvesAttack ==
    (unit.fn = "calculate_damage" /\ unit.done /\ ~unit.raised) =>
        /\ unit.status = STATUS_BURN =>
              unit.out = calculate_damage(Halved(unit.attacker), unit.defender,
                                          NoStatus)
        /\ unit.status \in {STATUS_PARALYSIS, STATUS_POISON} =>
              unit.out = calculate_damage(unit.attacker, unit.defender, NoStatus)

\* C17 witness: a burned attacker of odd attack 51 deals what attack 25
\* deals, less than it deals without the burn.
C17_Witness ==
    /\ unit.fn = "calculate_damage"
    /\ unit.done
    /\ ~unit.raised
    /\ unit.status = STATUS_BURN
    /\ "attack" \in DOMAIN unit.attacker.base_stats
    /\ unit.attacker.base_stats.attack = 51
    /\ unit.out < calculate_damage(unit.attacker, unit.defender, NoStatus)

\* The Turn entries of the log, in order.
TurnEntries == SelectSeq(log, LAMBDA entry : entry[1] = "Turn")

\* A step that ends a round: the end-of-turn step of first with a faint, or
\* the end-of-turn step of second.
RoundEnds ==
    \/ pc = "first_eot" /\ pc' = "finish"
    \/ pc = "second_eot"

\* The counter is 1 when the loop is first reached, every round started
\* appends its Turn entry first, and the Turn entries are numbered 1, 2, 3...
TurnsNumbered ==
    /\ [][pc = "check" /\ pc' = "loop" => turn' = 1]_vars
    /\ [][IF pc = "loop" /\ pc' = "first_act" /\ LogComplete
          THEN log' = Append(log, <<"Turn", turn>>)
          ELSE TRUE]_vars
    /\ [][IF Len(log') > Len(log) /\ log'[Len(log) + 1][1] = "Turn"
          THEN pc = "loop"
          ELSE TRUE]_vars
    /\ [](\A k \in 1..Len(TurnEntries) :
              k <= MaxTurn => TurnEntries[k] = <<"Turn", k>>)

\* C15 as stated: the counter starts at 1 and is incremented once per full
\* round, a round that ends because one side fainted included, and the Turn
\* entries are numbered 1, 2, 3... consecutively.
C15_TurnPerRound ==
    /\ TurnsNumbered
    /\ [][IF pc \in {"loop", "first_act", "first_eot", "second_act", "second_eot"}
             /\ turn < MaxTurn
          THEN turn' = IF RoundEnds THEN turn + 1 ELSE turn
          ELSE TRUE]_vars

\* C15 amended: the counter starts at 1 and is incremented once at the end
\* of each round in which both sides acted and neither fainted; the round in
\* which a side faints leaves it as it is.  Every round started appends its
\* Turn entry first and the Turn entries are numbered 1, 2, 3...
C15_TurnPerSurvivedRound ==
    /\ TurnsNumbered
    /\ [][IF pc \in {"loop", "first_act", "first_eot", "second_act", "second_eot"}
             /\ turn < MaxTurn
          THEN turn' = IF pc = "second_eot" /\ pc' = "loop"
                       THEN turn + 1 ELSE turn
          ELSE TRUE]_vars

\* C15 witness: the first side fainted at the end of the second round; the
\* counter was incremented after the first round and not after the second.
C15_Witness ==
    /\ pc = "finish"
    /\ LogComplete
    /\ Len(TurnEntries) = 2
    /\ log[Len(log)] = <<"fainted", first_name>>
    /\ turn = 2
    /\ Len(RoundActs) = 2

\* C19: in every step of the battle loop neither side's health increases;
\* an executed attack lowers the defender's health by at least 1, and a burn
\* or poison tick lowers the afflicted side's health by at least 1, also
\* when that health is 0 or less at the tick.
C19_HealthNeverRises ==
    [][IF pc \in {"loop", "first_act", "first_eot", "second_act", "second_eot"}
       THEN /\ first_hp' <= first_hp
            /\ second_hp' <= second_hp
            /\ (pc = "first_act" /\ LogComplete /\ AttackNarrated) =>
                  second_hp' <= second_hp - 1
            /\ (pc = "second_act" /\ LogComplete /\ AttackNarrated) =>
                  first_hp' <= first_hp - 1
            /\ (pc = "first_eot" /\ second_status \in {STATUS_BURN, STATUS_POISON}) =>
                  second_hp' <= second_hp - 1
            /\ (pc = "second_eot" /\ first_status \in {STATUS_BURN, STATUS_POISON}) =>
                  first_hp' <= first_hp - 1
       ELSE TRUE]_vars

\* C19 witness: an attack brought the afflicted side's health to 0 or less
\* and the tick that followed lowered it by 1 more.
C19_Witness ==
    /\ pc = "finish"
    /\ LogComplete
    /\ Len(log) >= 3
    /\ log[Len(log)] = <<"fainted", second_name>>
    /\ log[Len(log) - 1][1] = "status"
    /\ log[Len(log) - 1][3][2] = 1
    /\ second_hp + 1 <= 0
    /\ log[Len(log) - 2][1] = "uses"

\* The log is only ever appended to.
LogAppendOnly ==
    [][/\ Len(log') >= Len(log)
       /\ SubSeq(log', 1, Len(log)) = log]_vars

\* The positions of the fainted entries of the log.
FaintedAt == {i \in 1..Len(log) : log[i][1] = "fainted"}

\* The log has exactly one fainted entry, naming the side whose health is
\* <= 0, directly followed by the last entry, the only Winner entry, which
\* names the other side.
LogEndsWithFaintAndWinner ==
    /\ Cardinality(FaintedAt) = 1
    /\ FaintedAt = {Len(log) - 1}
    /\ {i \in 1..Len(log) : log[i][1] = "Winner"} = {Len(log)}
    /\ \/ /\ second_hp <= 0
          /\ log[Len(log) - 1] = <<"fainted", second_name>>
          /\ log[Len(log)] = <<"Winner", first_name>>
       \/ /\ first_hp <= 0
          /\ log[Len(log) - 1] = <<"fainted", first_name>>
          /\ log[Len(log)] = <<"Winner", second_name>>
    /\ result.battle_log = log

\* C20 as stated: the log is append-only, and the log of every completed
\* battle has exactly one fainted entry, naming the loser, directly followed
\* by the final Winner entry naming the other combatant.
C20_LogShape ==
    /\ LogAppendOnly
    /\ []((Completed /\ LogComplete) => LogEndsWithFaintAndWinner)

\* C20 amended: the same for every completed battle in which both combatants
\* start with health above 0 (otherwise the loop body never runs and the log
\* is the Winner entry alone).
C20_LogShapeIfBothStartAlive ==
    /\ LogAppendOnly
    /\ []((Completed /\ LogComplete /\ hp1 > 0 /\ hp2 > 0) =>
             LogEndsWithFaintAndWinner)

\* C20 witness: a battle of several rounds between combatants of different
\* names has ended with the fainted entry of the side that acts second and
\* the Winner entry of the other.
C20_Witness ==
    /\ Completed
    /\ LogComplete
    /\ hp1 > 0 /\ hp2 > 0
    /\ first_name # second_name
    /\ Len(TurnEntries) >= 2
    /\ log[Len(log) - 1] = <<"fainted", second_name>>
    /\ log[Len(log)] = <<"Winner", first_name>>

\* The names a call's narration may use: those of its own two arguments.
OwnNames(f) == {Lower(f.pokemon1), Lower(f.pokemon2)}

\* Everything a call's frame holds comes from its own arguments: its
\* combatants, the names in its log, and the result it returns.
FrameIsOwn(f) ==
    /\ ~IsNone(f.poke1) => f.poke1.name = Lower(f.pokemon1)
    /\ ~IsNone(f.poke2) => f.poke2.name = Lower(f.pokemon2)
    /\ \A i \in 1..Len(f.log) :
          f.log[i][1] = "Turn" \/ f.log[i][2] \in OwnNames(f)
    /\ (f.pc = "done" /\ "winner" \in DOMAIN f.result) =>
          /\ f.result.winner \in OwnNames(f)
          /\ f.result.pokemon1 = Lower(f.pokemon1)
          /\ f.result.pokemon2 = Lower(f.pokemon2)
          /\ Len(f.log) < MaxLog => f.result.battle_log = f.log

\* C18: a call is suspended only at the await of a fetch or at its end,
\* never inside the battle loop; the frame of the suspended call is changed
\* by no step of the running one and is resumed exactly as it was
\* suspended; and what each call holds and returns comes from its own
\* arguments.
C18_Isolation ==
    /\ []("pc" \in DOMAIN parked /\ parked.pc \in AwaitPoints)
    /\ [][parked' # parked => (Frame' = parked /\ parked' = Frame)]_vars
    /\ [](FrameIsOwn(Frame) /\ FrameIsOwn(parked))
    /\ [][(pc \notin AwaitPoints \/ pc' \notin AwaitPoints) =>
             /\ pokemon1' = pokemon1
             /\ parked' = parked]_vars

\* C18 witness: the second call has returned its battle result while the
\* first call, suspended between its two fetches, is still to finish.
C18_Witness ==
    /\ pokemon1 = NameAbra
    /\ pc = "done"
    /\ "winner" \in DOMAIN result
    /\ Len(log) >= 4
    /\ parked.pokemon1 = NameMew
    /\ parked.pc = "fetch2"

\* Both calls have returned a battle result, each of its own combatants.
C18_WitnessBoth ==
    /\ pc = "done"
    /\ "winner" \in DOMAIN result
    /\ parked.pc = "done"
    /\ "winner" \in DOMAIN parked.result
    /\ parked.result.winner # result.winner

====
